---- MODULE Spec2Model ----
(***************************************************************************)
(* Asynchronous anytime SMC (src/src/inference/asmc.js) as a state         *)
(* machine.  One action per entry point of the aSMC object: the            *)
(* constructor, the three coroutine hooks sample / factor / exit, and the  *)
(* continue handle attached to the returned distribution.  Every hook      *)
(* ends with a tail call of control(), which is part of the same action.   *)
(*                                                                         *)
(* Log-weights.  The code keeps log-weights (reals, or -Infinity).  The    *)
(* model keeps the exponential of each log-weight as an exact rational     *)
(* <<n, d>> in lowest terms, so that                                       *)
(*     x + y          is the product of the rationals        (LAdd)        *)
(*     x - y          is the quotient                        (LSub)        *)
(*     Math.log(a/b)  is the rational a/b                    (LogFrac)     *)
(*     -Infinity      is the rational 0                      (NegInf)      *)
(*     logsumexp      is the sum                             (logsumexp)   *)
(*     Math.exp(x)    is the rational itself                 (ExpCeil ..)  *)
(* The code holds doubles: what it computes with Math.log, Math.exp and    *)
(* the additions is the exact value or a double next to it, and which one  *)
(* depends on the values and on the Math library of the runtime.  The      *)
(* rounding shows where the exact ratio exp(currWeight - wbar) is a whole  *)
(* number: the double the code holds for it is that number, or lies below  *)
(* or above it.  This is the input round of factor, one of Rounding: -1    *)
(* when the computed ratio is below the exact one, 0 when it is the exact  *)
(* one, 1 when it is above.  The weights kept in the records and in the    *)
(* ledger are the exact values that the doubles of the code approximate.   *)
(* The scores are finite or -Infinity, and so is every log-weight.         *)
(***************************************************************************)
EXTENDS Integers, Sequences, FiniteSets, TLC

\* ------------------------------------------------------------------ bounds
\* largest bufferSize argument tried
MaxBufferSize == 2
\* largest numParticles argument tried
MaxNumParticles == 2
\* factor statements along one trajectory of the model program
MaxFactors == 2
\* ledger entries (finite-weight arrivals at observations) in one run
MaxArrivals == 3
\* calls of dist.continue in one run
MaxContinues == 1

\* ------------------------------------------------------- exact log-weights
RECURSIVE GCD(_, _)
GCD(a, b) == IF b = 0 THEN a ELSE GCD(b, a % b)

\* n/d in lowest terms; n/0 is +Infinity (n > 0) or NaN (n = 0)
Rat(n, d) ==
    IF d = 0 THEN <<IF n > 0 THEN 1 ELSE 0, 0>>
    ELSE IF n = 0 THEN <<0, 1>>
    ELSE LET g == GCD(n, d) IN <<n \div g, d \div g>>

NegInf == Rat(0, 1)
Zero == Rat(1, 1)
NaN == Rat(0, 0)

LogFrac(a, b) == Rat(a, b)
LAdd(x, y) == Rat(x[1] * y[1], x[2] * y[2])
LSub(x, y) == Rat(x[1] * y[2], x[2] * y[1])
LLess(x, y) == x[1] * y[2] < y[1] * x[2]

\* the rounding of a computed double against the exact value
Rounding == {0 - 1, 0, 1}

\* logRatio < 0 (line 125): the exact ratio is below 1, or it is 1 and the
\* computed logRatio fell below 0
Negative(x, round) == LLess(x, Zero) \/ (x = Zero /\ round < 0)

\* Math.floor(Math.exp(x)) and Math.ceil(Math.exp(x)): a whole exact ratio k
\* is computed as k, as a double below k or as one above; of +Infinity and of
\* NaN they are the numbers Infinity and NaN, written as Rat writes them
ExpFloor(x, round) ==
    IF x[2] = 0 THEN x
    ELSE IF x[2] = 1 /\ round < 0 THEN x[1] - 1 ELSE x[1] \div x[2]
ExpCeil(x, round) ==
    IF x[2] = 0 THEN x
    ELSE IF x[2] = 1 /\ round > 0 THEN x[1] + 1 ELSE (x[1] + x[2] - 1) \div x[2]

\* Math.max.apply(null, a)
MaxOf(a) ==
    IF a = <<>> THEN NegInf
    ELSE CHOOSE x \in {a[j] : j \in DOMAIN a} : \A j \in DOMAIN a : ~LLess(x, a[j])

\* x + y of two numbers that are not logarithms
Plus(x, y) == Rat(x[1] * y[2] + y[1] * x[2], x[2] * y[2])

\* the sum of exp(a[i] - m) over the first n entries of a, those that are
\* -Infinity counting 0
RECURSIVE SumExpRel(_, _, _)
SumExpRel(a, m, n) ==
    IF n = 0 THEN Rat(0, 1)
    ELSE CHOOSE y \in
            {Plus(sum, IF a[n] = NegInf THEN Rat(0, 1) ELSE LSub(a[n], m)) :
                sum \in {SumExpRel(a, m, n - 1)}} : TRUE

\* util.logsumexp; Math.log(sum) of line 59 is the number sum itself
logsumexp(a) ==
    CHOOSE y \in
        {CHOOSE z \in {LAdd(m, SumExpRel(v, m, Len(v))) : m \in {MaxOf(v)}} : TRUE :
            v \in {a}} : TRUE

\* ------------------------------------------------------------------- state
Undefined == 0 - 1
StoreVals == {0, 1}
Scores == {NegInf, Zero, LogFrac(2, 1)}
Extras == {1}
Models == {"any", "zero", "trivial", "allkill"}

VARIABLES
    pc,               \* "idle" | "running" | "returned" | "escaped" | "thrown"
    args,             \* the arguments of the aSMC call
    entry,            \* env.coroutine and the content of s when aSMC is called
    coroutine,        \* env.coroutine
    heap,             \* store maps by reference: ref -> content of the slot
    buffer, bufferSize, numParticles, obsWeights, exitedParticles,
    store, oldStore, oldCoroutine, activeParticle,
    position,         \* the continuation the model program is running from
    kCalls, kLast,    \* invocations of the outer continuation k
    continues,        \* calls of dist.continue
    budget,           \* numParticles argument plus the extras of continue
    arrivedDead,      \* per factorIndex: a factor call left the weight -Infinity
    factorParity,     \* the number of factor calls made so far, modulo 2
    finiteArrivals,   \* those of them with a finite weight after the score
    firstW,           \* weight of the first finite arrival per factorIndex
    last              \* what the last hook did

vars == <<pc, args, entry, coroutine, heap, buffer, bufferSize, numParticles,
          obsWeights, exitedParticles, store, oldStore, oldCoroutine,
          activeParticle, position, kCalls, kLast, continues, budget,
          arrivedDead, factorParity, finiteArrivals, firstW, last>>

\* position is not among asmcFields: it belongs to the model program
asmcFields == <<buffer, bufferSize, numParticles, obsWeights, exitedParticles,
                store, oldStore, oldCoroutine, activeParticle>>
history == <<continues, budget, arrivedDead, factorParity, finiteArrivals, firstW>>


\* ------------------------------------------------------------------ stores
\* a fresh reference: the least one not in use
Alloc(hp) ==
    CHOOSE r \in 1..(Cardinality(DOMAIN hp) + 1) :
        r \notin DOMAIN hp /\ \A q \in 1..(r - 1) : q \in DOMAIN hp

cloneSharing(hp, s) == [ref |-> s, heap |-> hp]

\* _.clone(s): a new map with the content of s
clone(hp, s) == [ref |-> Alloc(hp), heap |-> hp @@ (Alloc(hp) :> hp[s])]

\* References only name objects.  At the end of every handler the store maps
\* still referred to are named anew, in the order in which the fields of the
\* object reach them (this.store, this.oldStore, the buffer, the active
\* particle, the completed particles); the maps no record refers to any more
\* are reclaimed by the runtime.  Two fields hold the same reference after the
\* renaming exactly when they did before it.
Stores(ps) == [j \in DOMAIN ps |-> ps[j].store]

FirstAt(order, r) ==
    CHOOSE j \in DOMAIN order : order[j] = r /\ \A q \in 1..(j - 1) : order[q] # r

\* act is the record in this.activeParticle, NoParticle when there is none
Renaming(st, ost, buf, act, exited) ==
    CHOOSE y \in
        {CHOOSE z \in
            {[r \in {order[j] : j \in DOMAIN order} |->
                Cardinality({first[q] : q \in
                    {x \in DOMAIN order : first[x] <= FirstAt(order, r)}})] :
                first \in {[j \in DOMAIN order |-> FirstAt(order, order[j])]}} : TRUE :
            order \in {<<st, ost>> \o Stores(buf)
                           \o (IF act.store = 0 THEN <<>> ELSE <<act.store>>)
                           \o Stores(exited)}} : TRUE

Renamed(ps, ren) == [j \in DOMAIN ps |-> [ps[j] EXCEPT !.store = ren[@]]]

Reclaim(hp, ren) ==
    [n \in {ren[r] : r \in DOMAIN ren} |->
        hp[CHOOSE r \in DOMAIN ren : ren[r] = n]]

\* --------------------------------------------------------------- particles
\* the continuation that starts the model program (line 50)
exitK == [at |-> 0, drawn |-> FALSE]

NoParticle ==
    [continuation |-> exitK, weight |-> Zero, finalWeight |-> Zero,
     completed |-> FALSE, factorIndex |-> Undefined, value |-> Undefined,
     numChildrenToSpawn |-> 0, multiplicity |-> 0, store |-> 0]

copyOneParticleFromStart(particle, ref) ==
    [particle EXCEPT !.numChildrenToSpawn = 1, !.factorIndex = Undefined, !.store = ref]

copyOneParticle(particle, ref) ==
    [continuation |-> particle.continuation,
     weight |-> particle.weight,
     finalWeight |-> particle.finalWeight,
     completed |-> particle.completed,
     factorIndex |-> particle.factorIndex,
     value |-> particle.value,
     numChildrenToSpawn |-> 1,
     multiplicity |-> particle.multiplicity,
     store |-> ref]

initParticle(ref, cont) ==
    [continuation |-> cont,
     weight |-> Zero,
     finalWeight |-> Zero,
     completed |-> FALSE,
     factorIndex |-> Undefined,
     value |-> Undefined,
     numChildrenToSpawn |-> 0,
     multiplicity |-> 1,
     store |-> ref]

\* Math.floor(bufferSize * 3 / 5)
initNumP(bs) == (bs * 3) \div 5

\* the constructor's loop: n pushes of initParticle(s, exitK)
RECURSIVE Seed(_, _, _, _)
Seed(n, buf, hp, s) ==
    IF n <= 0 THEN [buffer |-> buf, heap |-> hp]
    ELSE LET c == clone(hp, s)
         IN  Seed(n - 1, Append(buf, initParticle(c.ref, exitK)), c.heap, s)

\* ----------------------------------------------------------------- control
controlKeepingLaunched(numP, i, buf, hp, np, st, act) ==
    LET newNP == IF numP = Undefined THEN np ELSE np + numP
    IN  IF i = Len(buf)
        THEN LET c == clone(hp, st)
             IN  [numParticles |-> newNP, buffer |-> buf,
                  active |-> initParticle(c.ref, exitK), heap |-> c.heap,
                  thrown |-> FALSE]
        ELSE LET launchP == buf[i + 1]
             IN  IF launchP.numChildrenToSpawn > 1
                 THEN [numParticles |-> newNP, buffer |-> buf, active |-> launchP,
                       heap |-> hp, thrown |-> FALSE]
                 ELSE [numParticles |-> newNP, buffer |-> buf, active |-> act,
                       heap |-> hp, thrown |-> TRUE]

\* control(numP) on buffer buf and heap hp, i being
\* Math.floor((buf.length + 1) * Math.random()) and act the record in
\* this.activeParticle.  util.js exports no deleteIndex: line 86 throws a
\* TypeError before it assigns this.buffer, with line 71 done and lines
\* 89-90 not reached (thrown).
control(numP, i, buf, hp, np, st, act) ==
    LET newNP == IF numP = Undefined THEN np ELSE np + numP
    IN  IF i = Len(buf)
        THEN LET c == clone(hp, st)
             IN  [numParticles |-> newNP, buffer |-> buf,
                  active |-> initParticle(c.ref, exitK), heap |-> c.heap,
                  thrown |-> FALSE]
        ELSE LET launchP == buf[i + 1]
             IN  IF launchP.numChildrenToSpawn > 1
                 THEN LET c == clone(hp, launchP.store)
                      IN  [numParticles |-> newNP,
                           buffer |-> [buf EXCEPT ![i + 1].numChildrenToSpawn = @ - 1],
                           active |-> copyOneParticle(launchP, c.ref),
                           heap |-> c.heap,
                           thrown |-> FALSE]
                 ELSE [numParticles |-> newNP, buffer |-> buf, active |-> act,
                       heap |-> hp, thrown |-> TRUE]

\* the state a handler leaves behind when it ends with control(numP): the
\* launched particle running from its continuation, or the handler ended by
\* the TypeError of line 86
Resume(numP, i, buf, hp, st, ost, act, exited) ==
    \E r \in {control(numP, i, buf, hp, numParticles, st, act)} :
    \E ren \in {Renaming(st, ost, r.buffer, r.active, exited)} :
        /\ numParticles' = r.numParticles
        /\ buffer' = Renamed(r.buffer, ren)
        /\ activeParticle' = [r.active EXCEPT !.store = IF @ = 0 THEN 0 ELSE ren[@]]
        /\ exitedParticles' = Renamed(exited, ren)
        /\ store' = ren[st]
        /\ oldStore' = ren[ost]
        /\ heap' = Reclaim(r.heap, ren)
        /\ pc' = IF r.thrown THEN "thrown" ELSE "running"
        /\ position' = IF r.thrown THEN exitK ELSE r.active.continuation

\* -------------------------------------------------------------------- init
NoDist == [hist |-> <<>>, normalizationConstant |-> NaN]
NoCall == [store |-> 0, storeVal |-> Undefined, coroutine |-> "none", dist |-> NoDist]
\* a record without the reference to its store map
Shape(p) == [p EXCEPT !.store = 0]

\* what the last handler did: for factor, the resulting factorIndex (fi), the
\* score, the number of children awarded (c, undefined when the particle
\* arrived dead), the rounding of the computed ratio, the record pushed
\* (NoParticle when none was) and the length of the buffer after the push
NoOp == [op |-> "none", fi |-> Undefined, score |-> Undefined, c |-> Undefined,
         round |-> 0, pushed |-> NoParticle, lenPushed |-> 0]

\* the contract of the entry point: numParticles >= 1 and bufferSize >= 1
ValidConfig(a) == a.numParticles >= 1 /\ a.bufferSize >= 1

\* of the calls that break the contract, those with one argument 0 and the
\* other 1 are tried
SmallestInvalid(a) == a.numParticles + a.bufferSize = 1

Init ==
    /\ pc = "idle"
    /\ args \in [numParticles : 0..MaxNumParticles, bufferSize : 0..MaxBufferSize,
                 model : Models]
    /\ ValidConfig(args) \/ SmallestInvalid(args)
    /\ coroutine = "default"
    /\ heap = (1 :> 0)
    /\ entry = [coroutine |-> coroutine, storeVal |-> heap[1]]
    /\ buffer = <<>>
    /\ bufferSize = 0
    /\ numParticles = 0
    /\ obsWeights = <<>>
    /\ exitedParticles = <<>>
    /\ store = 0
    /\ oldStore = 0
    /\ oldCoroutine = "none"
    /\ activeParticle = NoParticle
    /\ position = exitK
    /\ kCalls = 0
    /\ kLast = NoCall
    /\ continues = 0
    /\ budget = 0
    /\ arrivedDead = [n \in 0..(MaxFactors - 1) |-> FALSE]
    /\ factorParity = 0
    /\ finiteArrivals = [n \in 0..(MaxFactors - 1) |-> 0]
    /\ firstW = [n \in 0..(MaxFactors - 1) |-> NegInf]
    /\ last = NoOp

\* ------------------------------------------------------------- constructor
\* new aSMC(s, k, a, wpplFn, numParticles, bufferSize), s being reference 1
aSMC(i) ==
    /\ pc = "idle"
    /\ LET seeded == Seed(initNumP(args.bufferSize), <<>>, heap, 1)
           old == clone(seeded.heap, 1)
       IN  /\ i \in 0..Len(seeded.buffer)
           /\ bufferSize' = args.bufferSize
           /\ obsWeights' = <<>>
           /\ oldCoroutine' = coroutine
           /\ coroutine' = "aSMC"
           /\ Resume(args.numParticles, i, seeded.buffer, old.heap, 1, old.ref,
                     NoParticle, <<>>)
    /\ budget' = args.numParticles
    /\ last' = [NoOp EXCEPT !.op = "aSMC"]
    /\ UNCHANGED <<args, entry, kCalls, kLast, continues, arrivedDead, factorParity,
                   finiteArrivals, firstW>>

\* ------------------------------------------------------- the model program
\* A continuation of the model is the rest of its program: the number of
\* factor statements passed (at) and whether the final draw was made (drawn).
\* The program "any" calls factor at most MaxFactors times along a trajectory,
\* with any score, then may draw a value with sample, which it writes to its
\* store slot, and returns the content of its store slot; the program "zero"
\* is the program "any" with score 0 in every factor statement; the program
\* "trivial" is the program "any" without factor statements; the program
\* "allkill" is  factor(-Infinity); return 0.
MayFactor(cont, score) ==
    /\ cont.at < MaxFactors
    /\ ~cont.drawn
    /\ args.model # "trivial"
    /\ args.model = "zero" => score = Zero
    /\ args.model = "allkill" => (cont.at = 0 /\ score = NegInf)

MaySample(cont) == args.model # "allkill" /\ ~cont.drawn

MayExit(cont) == args.model # "allkill" \/ cont.at > 0

\* the hooks of the model reach this object only while it is env.coroutine
Dispatched == pc = "running" /\ coroutine = "aSMC"

\* ------------------------------------------------------------------ sample
\* sample(s, cc, a, erp, params): cc(s, v) and no write to the object or to
\* the active record; the model program, running on from cc, stores the draw
\* v in its store slot
sample(v) ==
    /\ Dispatched
    /\ MaySample(position)
    /\ heap' = [heap EXCEPT ![activeParticle.store] = v]
    /\ position' = [position EXCEPT !.drawn = TRUE]
    /\ last' = [NoOp EXCEPT !.op = "sample"]
    /\ UNCHANGED <<pc, args, entry, coroutine, asmcFields, kCalls, kLast, history>>

\* ------------------------------------------------------------------ factor
RECURSIVE SumMnk(_)
SumMnk(lk) == IF lk = <<>> THEN 0 ELSE Head(lk).mnk + SumMnk(Tail(lk))

Min(a, b) == IF a < b THEN a ELSE b

\* the record of the first particle at an observation (lines 109-112)
FirstDet(w) == [wbar |-> w, mnk |-> 1]

\* the running reference weight (lines 119-122)
NextWBar(lk, currMultiplicity, currWeight) ==
    LET denom == Len(lk) + currMultiplicity
        prevWBar == lk[Len(lk)].wbar
    IN  logsumexp(<<LAdd(LogFrac(Len(lk), denom), prevWBar),
                    LAdd(LogFrac(currMultiplicity, denom), currWeight)>>)

NumChildrenAndWeightKeepingDead(lk, wbar, currWeight, bs, keep, round) ==
    LET logRatio == LSub(currWeight, wbar)
    IN  IF Negative(logRatio, round)
        THEN IF keep THEN <<1, wbar>> ELSE <<1, NegInf>>
        ELSE LET totalChildren == SumMnk(lk)
                 minK == Min(bs, Len(lk))
                 clampedRnk == IF totalChildren <= minK
                                 THEN ExpCeil(logRatio, round)
                                 ELSE ExpFloor(logRatio, round)
             IN  <<clampedRnk, LSub(currWeight, LogFrac(clampedRnk, 1))>>

NumChildrenAndWeightFlooring(lk, wbar, currWeight, bs, keep, round) ==
    LET logRatio == LSub(currWeight, wbar)
    IN  IF Negative(logRatio, round)
        THEN IF keep THEN <<1, wbar>> ELSE <<0, NegInf>>
        ELSE <<ExpFloor(logRatio, round),
               LSub(currWeight, LogFrac(ExpFloor(logRatio, round), 1))>>

\* numChildrenAndWeight (lines 123-136); keep is the outcome of
\* Math.log(Math.random()) < logRatio, round the rounding of the computed
\* ratio
NumChildrenAndWeight(lk, wbar, currWeight, bs, keep, round) ==
    LET logRatio == LSub(currWeight, wbar)
    IN  IF Negative(logRatio, round)
        THEN IF keep THEN <<1, wbar>> ELSE <<0, NegInf>>
        ELSE LET totalChildren == SumMnk(lk)
                 minK == Min(bs, Len(lk))
                 clampedRnk == IF totalChildren <= minK
                                 THEN ExpCeil(logRatio, round)
                                 ELSE ExpFloor(logRatio, round)
             IN  <<clampedRnk, LSub(currWeight, LogFrac(clampedRnk, 1))>>

ConcatDetReplacingLast(lk, det2) == [lk EXCEPT ![Len(lk)] = det2]

ConcatDetOverwriting(lk, det2) == <<det2>>

ConcatDetPrepending(lk, det2) == <<det2>> \o lk

\* obsWeights[newFI] = lk.concat([det2])
ConcatDet(lk, det2) == Append(lk, det2)

RebufferedForgettingScore(p, ncw, bufLen, bs, score) ==
    LET q == IF bufLen < bs
             THEN [p EXCEPT !.numChildrenToSpawn = ncw[1], !.weight = ncw[2]]
             ELSE [p EXCEPT !.multiplicity = @ * ncw[1],
                            !.numChildrenToSpawn = 1, !.weight = ncw[2]]
    IN  [q EXCEPT !.finalWeight = LAdd(LogFrac(q.multiplicity, 1), q.weight)]

\* the particle after lines 142-154, score being the score of this call
Rebuffered(p, ncw, bufLen, bs, score) ==
    LET q == IF bufLen < bs
             THEN [p EXCEPT !.numChildrenToSpawn = ncw[1], !.weight = ncw[2]]
             ELSE [p EXCEPT !.multiplicity = @ * ncw[1],
                            !.numChildrenToSpawn = 1, !.weight = ncw[2]]
    IN  [q EXCEPT !.finalWeight =
            LAdd(LAdd(LogFrac(q.multiplicity, 1), q.weight), score)]

TotalLedger ==
    LET RECURSIVE Tot(_)
        Tot(S) == IF S = {} THEN 0
                  ELSE LET n == CHOOSE n \in S : TRUE
                       IN  Len(obsWeights[n]) + Tot(S \ {n})
    IN  Tot(DOMAIN obsWeights)

\* what lines 98-103 leave of the active particle
Arrived(p, cc, s, score) ==
    [p EXCEPT !.weight = LAdd(@, score), !.continuation = cc, !.store = s,
              !.factorIndex = IF @ = Undefined THEN 0 ELSE @ + 1]

\* the roundings a computed ratio can show
Rounds(logRatio) == IF logRatio[2] = 1 THEN Rounding ELSE {0}

\* factor(s, cc, a, score), called by the running model program with its
\* store and the rest of its program
factor(score, keep, round, i) ==
    /\ Dispatched
    /\ MayFactor(position, score)
    /\ LET a1 == Arrived(activeParticle,
                         [at |-> position.at + 1, drawn |-> FALSE],
                         activeParticle.store, score)
           newFI == a1.factorIndex
       IN  /\ factorParity' = 1 - factorParity
           /\ arrivedDead' = IF a1.weight = NegInf
                             THEN [arrivedDead EXCEPT ![newFI] = TRUE]
                             ELSE arrivedDead
           /\ IF a1.weight = NegInf
              THEN /\ i \in 0..Len(buffer)
                   /\ round = 0
                   /\ Resume(Undefined, i, buffer, heap, store, oldStore, a1,
                             exitedParticles)
                   /\ last' = [op |-> "factor", fi |-> newFI, score |-> score,
                               c |-> Undefined, round |-> 0, pushed |-> NoParticle,
                               lenPushed |-> Len(buffer)]
                   /\ UNCHANGED <<obsWeights, finiteArrivals, firstW>>
              ELSE /\ TotalLedger < MaxArrivals
                   /\ finiteArrivals' = [finiteArrivals EXCEPT ![newFI] = @ + 1]
                   /\ firstW' = IF finiteArrivals[newFI] = 0
                                 THEN [firstW EXCEPT ![newFI] = a1.weight]
                                 ELSE firstW
                   /\ IF newFI \notin DOMAIN obsWeights
                      THEN LET a2 == [a1 EXCEPT !.numChildrenToSpawn = 1,
                                                !.finalWeight = a1.weight]
                           IN  /\ obsWeights' = obsWeights @@ (newFI :> <<FirstDet(a1.weight)>>)
                               /\ i \in 0..Len(buffer)
                               /\ round = 0
                               /\ Resume(Undefined, i, buffer, heap, store, oldStore,
                                         a2, exitedParticles)
                               /\ last' = [op |-> "factor", fi |-> newFI,
                                           score |-> score, c |-> 1, round |-> 0,
                                           pushed |-> NoParticle,
                                           lenPushed |-> Len(buffer)]
                      ELSE LET lk == obsWeights[newFI]
                               wbar == NextWBar(lk, a1.multiplicity, a1.weight)
                               ncw == NumChildrenAndWeight(lk, wbar, a1.weight,
                                                           bufferSize, keep, round)
                               det2 == [wbar |-> wbar, mnk |-> ncw[1]]
                               a3 == IF ncw[1] > 0
                                     THEN Rebuffered(a1, ncw, Len(buffer),
                                                     bufferSize, score)
                                     ELSE a1
                               buf2 == IF ncw[1] > 0 THEN Append(buffer, a3)
                                       ELSE buffer
                           IN  /\ round \in Rounds(LSub(a1.weight, wbar))
                               /\ obsWeights' = [obsWeights EXCEPT
                                                   ![newFI] = ConcatDet(lk, det2)]
                               /\ i \in 0..Len(buf2)
                               /\ Resume(Undefined, i, buf2, heap, store, oldStore,
                                         a3, exitedParticles)
                               /\ last' = [op |-> "factor", fi |-> newFI,
                                           score |-> score, c |-> ncw[1],
                                           round |-> round,
                                           pushed |-> IF ncw[1] > 0
                                                      THEN Shape(a3)
                                                      ELSE NoParticle,
                                           lenPushed |-> Len(buf2)]
    /\ UNCHANGED <<args, entry, coroutine, bufferSize, oldCoroutine, kCalls, kLast,
                   continues, budget>>

\* -------------------------------------------------------------------- exit
\* lines 163-167
Completed(p, retval) ==
    [p EXCEPT !.value = retval, !.completed = TRUE, !.weight = p.finalWeight]

\* hist of lines 174-183: value -> number of completed particles with it
Hist(ps) ==
    [v \in {ps[j].value : j \in DOMAIN ps} |->
        Cardinality({j \in DOMAIN ps : ps[j].value = v})]

Weights(ps) == [j \in DOMAIN ps |-> ps[j].weight]

\* lines 186-188
NormalizationConstant(ps, np) == LSub(logsumexp(Weights(ps)), LogFrac(np, 1))

\* line 195: env.coroutine = this.oldCoroutine
Reinstated(cur, old) == old

ReturnedStoreOfParticle(s, old) == s

\* line 197: the store handed to k, s being the store exit was called with
ReturnedStore(s, old) == old

exit(i) ==
    /\ Dispatched
    /\ MayExit(position)
    /\ LET retval == IF args.model = "allkill" THEN 0 ELSE heap[activeParticle.store]
           a1 == Completed(activeParticle, retval)
           ex1 == Append(exitedParticles, a1)
       IN  /\ IF Len(ex1) < numParticles
              THEN /\ i \in 0..Len(buffer)
                   /\ Resume(Undefined, i, buffer, heap, store, oldStore, a1, ex1)
                   /\ UNCHANGED <<coroutine, kCalls, kLast>>
              ELSE LET dist == [hist |-> Hist(ex1),
                                normalizationConstant |->
                                    NormalizationConstant(ex1, numParticles)]
                       ks == ReturnedStore(activeParticle.store, oldStore)
                   IN  /\ i = 0
                       /\ coroutine' = Reinstated(coroutine, oldCoroutine)
                       /\ kCalls' = kCalls + 1
                       /\ pc' = "returned"
                       /\ position' = exitK
                       /\ LET ren == Renaming(store, oldStore, buffer, a1, ex1)
                          IN  /\ kLast' = [store |-> ren[ks], storeVal |-> heap[ks],
                                           coroutine |-> coroutine', dist |-> dist]
                              /\ buffer' = Renamed(buffer, ren)
                              /\ activeParticle' = [a1 EXCEPT !.store = ren[@]]
                              /\ exitedParticles' = Renamed(ex1, ren)
                              /\ store' = ren[store]
                              /\ oldStore' = ren[oldStore]
                              /\ heap' = Reclaim(heap, ren)
                       /\ UNCHANGED numParticles
    /\ last' = [NoOp EXCEPT !.op = "exit"]
    /\ UNCHANGED <<args, entry, bufferSize, obsWeights, oldCoroutine, history>>

\* ---------------------------------------------------------------- continue
\* dist.continue(numP): control(numP) of the object that built dist
continue(numP, i) ==
    /\ pc \in {"returned", "escaped"}
    /\ kCalls > 0
    /\ continues < MaxContinues
    /\ i \in 0..Len(buffer)
    /\ Resume(numP, i, buffer, heap, store, oldStore, activeParticle,
              exitedParticles)
    /\ continues' = continues + 1
    /\ budget' = budget + (IF numP = Undefined THEN 0 ELSE numP)
    /\ last' = [NoOp EXCEPT !.op = "continue"]
    /\ UNCHANGED <<args, entry, coroutine, bufferSize, obsWeights, oldCoroutine,
                   kCalls, kLast, arrivedDead, factorParity, finiteArrivals, firstW>>

\* the model resumed while another handler is env.coroutine: its next hook
\* call goes to that handler and this object is not called back
Escape ==
    /\ pc = "running"
    /\ coroutine # "aSMC"
    /\ pc' = "escaped"
    /\ last' = [NoOp EXCEPT !.op = "escape"]
    /\ UNCHANGED <<args, entry, coroutine, heap, asmcFields, position, kCalls,
                   kLast, history>>

\* ------------------------------------------------------------ specification
Next ==
    \/ \E i \in 0..MaxBufferSize : aSMC(i)
    \/ \E v \in StoreVals : sample(v)
    \/ \E score \in Scores, keep \in BOOLEAN, round \in Rounding,
          i \in 0..(MaxBufferSize + MaxArrivals) :
          factor(score, keep, round, i)
    \/ \E i \in 0..(MaxBufferSize + MaxArrivals) : exit(i)
    \/ \E numP \in Extras, i \in 0..(MaxBufferSize + MaxArrivals) : continue(numP, i)
    \/ Escape

Spec == Init /\ [][Next]_vars

\* The runs in which progress is examined: those of the models "allkill" and
\* "trivial".
FairInit ==
    /\ Init
    /\ args.model \in {"allkill", "trivial"}

\* The steps that are taken whenever they can be: the run is started, the
\* trampoline keeps running the tail calls of the handlers and the model
\* program keeps running until its next hook call.  Whether the caller ever
\* calls dist.continue is up to the caller.
Running ==
    \/ \E i \in 0..MaxBufferSize : aSMC(i)
    \/ \E v \in StoreVals : sample(v)
    \/ \E score \in Scores, keep \in BOOLEAN, round \in Rounding,
          i \in 0..(MaxBufferSize + MaxArrivals) :
          factor(score, keep, round, i)
    \/ \E i \in 0..(MaxBufferSize + MaxArrivals) : exit(i)
    \/ Escape

FairSpec == FairInit /\ [][Next]_vars /\ WF_vars(Running)

\* ------------------------------------------------------------------ claims
LedgerLen(n) == IF n \in DOMAIN obsWeights THEN Len(obsWeights[n]) ELSE 0

\* C1: in a run with bufferSize >= 1 the buffer never holds more than
\* bufferSize records, neither when a handler has ended nor right after the
\* push of a factor call.
C1_BufferBounded ==
    (pc # "idle" /\ args.bufferSize >= 1) =>
        /\ Len(buffer) <= bufferSize
        /\ last.op = "factor" => last.lenPushed <= bufferSize

\* C2: from the seeding of the constructor on, every record in the buffer has
\* numChildrenToSpawn >= 1 and multiplicity >= 1.
C2_BufferCredits ==
    pc # "idle" =>
        \A j \in DOMAIN buffer :
            buffer[j].numChildrenToSpawn >= 1 /\ buffer[j].multiplicity >= 1

\* C3: for a call within the contract, whenever the aSMC call or a
\* continue(extra) call has come to rest, the outer continuation has been
\* invoked once for the aSMC call and once per continue call, the number of
\* completed particles is the budget (numParticles plus the extras) and the
\* normalizationConstant handed over is logsumexp of all their weights minus
\* log(budget).
C3_BudgetMet ==
    (ValidConfig(args) /\ pc \in {"returned", "escaped"}) =>
        /\ kCalls = 1 + continues
        /\ Len(exitedParticles) = budget
        /\ kLast.dist.normalizationConstant =
               LSub(logsumexp(Weights(exitedParticles)), LogFrac(budget, 1))

\* C4: whenever a particle continuation has been resumed by control, the
\* handler in env.coroutine is the aSMC object.
C4_HandlerInstalled == pc = "running" => coroutine = "aSMC"

\* C5: when exit has returned to the outer continuation, env.coroutine is the
\* handler that was installed when aSMC was entered, it was so when k was
\* invoked, and the store handed to k is the copy made at entry, with the
\* content the store had at entry.
C5_RestoreThenReturn ==
    pc = "returned" =>
        /\ coroutine = entry.coroutine
        /\ kLast.coroutine = entry.coroutine
        /\ kLast.store = oldStore
        /\ kLast.storeVal = entry.storeVal
        /\ \A j \in DOMAIN exitedParticles : exitedParticles[j].store # kLast.store

\* C5 witness: k has been invoked after a completed particle wrote its store.
C5_Witness ==
    /\ pc = "returned"
    /\ \E j \in DOMAIN exitedParticles :
           heap[exitedParticles[j].store] # entry.storeVal
    /\ kLast.storeVal = entry.storeVal

\* C6: a call with numParticles <= 0 or bufferSize <= 0 takes no scheduler
\* step: no particle becomes active and k receives no distribution.
C6_InvalidConfigRejected ==
    ~ValidConfig(args) =>
        /\ pc \in {"idle", "error"}
        /\ activeParticle = NoParticle
        /\ kCalls = 0

\* C7: with the model  factor(-Infinity); return 0  the run ends: the outer
\* continuation receives a distribution with normalizationConstant -Infinity
\* and an empty histogram.
C7_AllKillTerminates ==
    (args.model = "allkill" /\ ValidConfig(args)) ~>
        /\ pc = "returned"
        /\ kLast.dist.normalizationConstant = NegInf
        /\ DOMAIN kLast.dist.hist = {}

\* C8 as stated: the ledger of every observation index n has one entry per
\* factor call whose resulting factorIndex is n, whatever the arriving weight:
\* as many entries as calls that arrived with a finite weight, and no call
\* arrived with weight -Infinity and was left out.
C8_LedgerCountsAllCalls ==
    \A n \in 0..(MaxFactors - 1) :
        LedgerLen(n) = finiteArrivals[n] /\ ~arrivedDead[n]

\* C8 amended: the ledger of every observation index n has one entry per
\* factor call whose resulting factorIndex is n and whose weight, after the
\* score is added, is not -Infinity.
C8_LedgerCountsFiniteCalls ==
    \A n \in 0..(MaxFactors - 1) : LedgerLen(n) = finiteArrivals[n]

\* C8 witness: an index with two ledger entries and a call that arrived dead.
C8_Witness ==
    \E n \in 0..(MaxFactors - 1) :
        finiteArrivals[n] >= 2 /\ arrivedDead[n]

\* C9: the first entry of every ledger has mnk = 1 and the weight of the
\* first particle that arrived at that index with a finite weight as wbar.
C9_FirstEntry ==
    \A n \in DOMAIN obsWeights :
        obsWeights[n][1].mnk = 1 /\ obsWeights[n][1].wbar = firstW[n]

\* C9 witness: a ledger whose second arrival moved the reference weight.
C9_Witness ==
    \E n \in DOMAIN obsWeights :
        Len(obsWeights[n]) >= 2 /\ obsWeights[n][2].wbar # obsWeights[n][1].wbar

\* C10: no record in the buffer has weight -Infinity; a factor call that
\* brings the weight to -Infinity changes no ledger and adds nothing to the
\* buffer, and a factor call that awards zero children adds nothing to the
\* buffer.
C10_DeadNotBuffered ==
    /\ [](\A j \in DOMAIN buffer : buffer[j].weight # NegInf)
    /\ [][(last'.op = "factor" /\ last'.c = Undefined) =>
             (obsWeights' = obsWeights /\ last'.lenPushed = Len(buffer)
              /\ Len(buffer') <= Len(buffer))]_vars
    /\ [][(last'.op = "factor" /\ last'.c = 0) =>
             (last'.lenPushed = Len(buffer) /\ Len(buffer') <= Len(buffer))]_vars

\* C10 witness: a factor call has awarded zero children after another one
\* arrived dead, and the buffer is not empty.
C10_Witness ==
    /\ last.op = "factor" /\ last.c = 0
    /\ \E n \in 0..(MaxFactors - 1) : arrivedDead[n]
    /\ buffer # <<>>

\* C11: in a run within the contract, a factor call that awards c >= 1 children to a particle that is not
\* the first at its observation, while the buffer holds bufferSize records or
\* more, multiplies the multiplicity of the particle by c, sets its
\* numChildrenToSpawn to 1 and leaves the buffer as long as it found it.
C11_SaturationLaw ==
    [][(/\ ValidConfig(args)
        /\ last'.op = "factor"
        /\ last'.c >= 1
        /\ LedgerLen(last'.fi) >= 1
        /\ Len(buffer) >= bufferSize)
       => (/\ last'.pushed.multiplicity = activeParticle.multiplicity * last'.c
           /\ last'.pushed.numChildrenToSpawn = 1
           /\ last'.lenPushed = Len(buffer))]_vars

\* C12: in a run of the program "zero" within the contract no factor call drops its particle,
\* awards more than one child or raises a multiplicity above 1, every weight
\* and finalWeight stays 0, and the normalizationConstant handed to k is 0.
C12_ZeroScoresPureSampling ==
    (args.model = "zero" /\ ValidConfig(args)) =>
        /\ last.op = "factor" =>
               /\ last.c = 1
               /\ last.pushed # NoParticle
               /\ last.pushed.numChildrenToSpawn = 1
        /\ \A p \in {buffer[j] : j \in DOMAIN buffer}
                   \cup {exitedParticles[j] : j \in DOMAIN exitedParticles}
                   \cup (IF activeParticle = NoParticle THEN {} ELSE {activeParticle}) :
               p.weight = Zero /\ p.finalWeight = Zero /\ p.multiplicity = 1
        /\ pc = "returned" => kLast.dist.normalizationConstant = Zero

\* the records of a list
Records(ps) == {ps[j] : j \in DOMAIN ps}

\* the fields of a record that make its weight
Weighing(r) ==
    [factorIndex |-> r.factorIndex, multiplicity |-> r.multiplicity,
     weight |-> r.weight, finalWeight |-> r.finalWeight]

ShapesOf(ps) == [j \in DOMAIN ps |-> Shape(ps[j])]

\* the buffer that the control call of a step finds: the seeded one in the
\* constructor, the one with the pushed record after factor, else the buffer
Launchable ==
    IF last'.op = "aSMC"
    THEN ShapesOf(Seed(initNumP(args.bufferSize), <<>>, heap, 1).buffer)
    ELSE IF last'.pushed # NoParticle
         THEN Append(ShapesOf(buffer), last'.pushed)
         ELSE ShapesOf(buffer)

\* the step does not call control: sample, the escape of the program, and
\* the exit that completes the last particle (lines 172-198)
ControlNotCalled ==
    \/ last'.op \in {"sample", "escape"}
    \/ last'.op = "exit" /\ pc' = "returned"

\* the records a step can take a particle from: those of the buffer as
\* control finds it and, when control is not called, the record that stays in
\* this.activeParticle
Sources ==
    Records(Launchable)
        \cup (IF ControlNotCalled THEN {Shape(activeParticle')} ELSE {})

\* C13: the record a factor call pushes has finalWeight = log(multiplicity) +
\* weight + score, with the multiplicity and weight the call has just given it
\* and the score of the call; the buffered and the active records that passed
\* a factor keep multiplicity, weight and finalWeight until their next hook
\* call; exit reports the finalWeight as the weight of the completed particle
\* and changes no finalWeight.
C13_FinalWeight ==
    /\ [][(last'.op = "factor" /\ last'.pushed # NoParticle) =>
             last'.pushed.finalWeight =
                 LAdd(LAdd(LogFrac(last'.pushed.multiplicity, 1), last'.pushed.weight),
                      last'.score)]_vars
    /\ [][\A r \in Records(buffer') \cup
                    (IF pc' \in {"running", "escaped"} THEN {activeParticle'} ELSE {}) :
             r.factorIndex # Undefined =>
                 Weighing(r) \in {Weighing(q) : q \in Sources}]_vars
    /\ [][last'.op \in {"sample", "escape"} =>
             Weighing(activeParticle') = Weighing(activeParticle)]_vars
    /\ [][last'.op = "exit" =>
             /\ Len(exitedParticles') = Len(exitedParticles) + 1
             /\ \A j \in DOMAIN exitedParticles :
                    Shape(exitedParticles'[j]) = Shape(exitedParticles[j])
             /\ LET e == exitedParticles'[Len(exitedParticles')]
                IN  /\ e.completed
                    /\ e.weight = activeParticle.finalWeight
                    /\ e.finalWeight = activeParticle.finalWeight
                    /\ e.multiplicity = activeParticle.multiplicity
                    /\ e.factorIndex = activeParticle.factorIndex]_vars

\* C13 witness: a completed particle that passed a factor with a score other
\* than 0, was awarded two children there, and reports a weight that is
\* neither 0 nor the weight it was given at the factor.
C13_Witness ==
    \E e \in Records(exitedParticles) :
        /\ e.factorIndex # Undefined
        /\ \E j \in DOMAIN obsWeights[e.factorIndex] :
               obsWeights[e.factorIndex][j].mnk = 2
        /\ e.weight = e.finalWeight
        /\ e.weight # Zero

\* C14: in a run within the contract, the factor call of the first particle
\* to arrive at an observation with a finite weight awards it one child and
\* pushes it to the buffer with its weight unchanged, one child credit and the
\* continuation passed to factor, from which control can resume it.
C14_FirstArrivalSurvives ==
    (/\ ValidConfig(args)
     /\ last.op = "factor"
     /\ last.c # Undefined
     /\ LedgerLen(last.fi) = 1)
    => (/\ last.c = 1
        /\ last.pushed # NoParticle
        /\ last.pushed.weight = firstW[last.fi]
        /\ last.pushed.numChildrenToSpawn = 1
        /\ last.pushed.continuation.at = last.fi + 1
        /\ last.lenPushed >= 1)

\* no two records of a list own the same store map
Apart(ps) == \A j, q \in DOMAIN ps : j # q => ps[j].store # ps[q].store

\* C15: a record, known by the store map it owns, is in one place at most:
\* once in the buffer, or in the active slot while it is resumed, or once in
\* the completed list; the records of the buffer and the resumed one are not
\* completed and those of the completed list are; when no particle is resumed
\* (k was invoked, or control threw) the active slot still names the record
\* of the last hook call, which that call completed, pushed or dropped; a
\* factor call either pushes the particle it was called by to the end of the
\* buffer or drops it, and completes none; an exit call appends the particle
\* it was called by to the completed list and adds nothing to the buffer.
C15_OnePlace ==
    /\ [](pc # "idle" =>
            /\ Apart(buffer \o exitedParticles)
            /\ \A b \in Records(buffer) : ~b.completed
            /\ \A e \in Records(exitedParticles) : e.completed
            /\ pc \in {"running", "escaped"} =>
                   /\ ~activeParticle.completed
                   /\ Apart(<<activeParticle>> \o buffer \o exitedParticles)
            /\ pc = "returned" =>
                   activeParticle = exitedParticles[Len(exitedParticles)]
            /\ (pc = "thrown" /\ last.op = "exit") =>
                   activeParticle = exitedParticles[Len(exitedParticles)]
            /\ (pc = "thrown" /\ last.op = "factor") =>
                   IF last.pushed # NoParticle
                   THEN activeParticle = buffer[last.lenPushed]
                   ELSE Apart(<<activeParticle>> \o buffer \o exitedParticles)
            /\ (pc = "thrown" /\ last.op = "aSMC") => activeParticle = NoParticle)
    /\ [][last'.op = "factor" =>
             /\ last'.lenPushed =
                    Len(buffer) + (IF last'.pushed # NoParticle THEN 1 ELSE 0)
             /\ last'.pushed # NoParticle =>
                    /\ last'.pushed.continuation.at = position.at + 1
                    /\ last'.pushed.factorIndex = last'.fi
             /\ Len(buffer') = last'.lenPushed
             /\ Len(exitedParticles') = Len(exitedParticles)]_vars
    /\ [][last'.op = "exit" =>
             /\ Len(exitedParticles') = Len(exitedParticles) + 1
             /\ Len(buffer') <= Len(buffer)
             /\ LET e == exitedParticles'[Len(exitedParticles')]
                IN  /\ e.continuation = activeParticle.continuation
                    /\ heap'[e.store] = heap[activeParticle.store]]_vars

\* C15 witness: a copy of a buffered record is being resumed while other
\* records wait in the buffer and in the completed list.
C15_Witness ==
    /\ pc = "running"
    /\ activeParticle.factorIndex # Undefined
    /\ buffer # <<>>
    /\ exitedParticles # <<>>

\* C16: every control call either launches a new particle and leaves the
\* buffer alone, or selects a slot i of the buffer: if the record there has
\* numChildrenToSpawn > 1, the buffer keeps its length, that record alone
\* changes, its numChildrenToSpawn going down by one, and a copy of it with
\* numChildrenToSpawn = 1 is launched; otherwise exactly that record leaves
\* the buffer and is launched.  No record that a factor call put in the buffer
\* has numChildrenToSpawn below 1.
C16_LaunchLaw ==
    /\ [][(last'.op \in {"aSMC", "factor", "exit", "continue"} /\ pc' # "returned") =>
             /\ pc' = "running"
             /\ \E i \in 0..Len(Launchable) :
                 IF i = Len(Launchable)
                 THEN /\ ShapesOf(buffer') = Launchable
                      /\ activeParticle'.factorIndex = Undefined
                      /\ activeParticle'.continuation = exitK
                 ELSE IF Launchable[i + 1].numChildrenToSpawn > 1
                      THEN /\ ShapesOf(buffer') =
                                 [Launchable EXCEPT ![i + 1].numChildrenToSpawn = @ - 1]
                           /\ Shape(activeParticle') =
                                 [Launchable[i + 1] EXCEPT !.numChildrenToSpawn = 1]
                      ELSE /\ ShapesOf(buffer') =
                                 SubSeq(Launchable, 1, i)
                                     \o SubSeq(Launchable, i + 2, Len(Launchable))
                           /\ Shape(activeParticle') = Launchable[i + 1]]_vars
    /\ [](\A b \in Records(buffer) :
             b.factorIndex # Undefined => b.numChildrenToSpawn >= 1)

\* C17: a factor call of a particle that is not the first at its observation
\* n and has a finite weight W after the score appends an entry whose mnk is
\* the number c of children awarded: no record is pushed when c = 0, and the
\* pushed record carries c as numChildrenToSpawn or as a factor of its
\* multiplicity.  If W is below the wbar of the new entry, as the code
\* computes them, c is 0 or 1 and the kept child has weight wbar; otherwise
\* c >= 1, c is the ceiling of the computed exp(W - wbar) when the mnk of the
\* earlier entries sum to at most min(bufferSize, their number) and the floor
\* if not, and the weight of the particle becomes W - log c.
C17_ChildCount ==
    [][(last'.op = "factor" /\ last'.c # Undefined /\ LedgerLen(last'.fi) >= 1) =>
         LET lk == obsWeights[last'.fi]
             e == obsWeights'[last'.fi][Len(lk) + 1]
             c == e.mnk
             W == LAdd(activeParticle.weight, last'.score)
             r == LSub(W, e.wbar)
             pushed == last'.pushed
         IN  /\ c = last'.c
             /\ c = 0 <=> pushed = NoParticle
             /\ c > 0 => pushed.numChildrenToSpawn * pushed.multiplicity
                             = c * activeParticle.multiplicity
             /\ IF Negative(r, last'.round)
                THEN /\ c \in {0, 1}
                     /\ c = 1 => pushed.weight = e.wbar
                ELSE /\ c >= 1
                     /\ c = IF SumMnk(lk) <= Min(bufferSize, Len(lk))
                            THEN ExpCeil(r, last'.round) ELSE ExpFloor(r, last'.round)
                     /\ pushed.weight = LSub(W, LogFrac(c, 1))]_vars

\* C17 witness: the second particle at an observation arrived with twice the
\* weight of the first and was awarded the ceiling of 4/3, two children.
C17_Witness ==
    /\ last.op = "factor"
    /\ last.c = 2
    /\ Len(obsWeights[last.fi]) = 2
    /\ obsWeights[last.fi][2].wbar = LogFrac(3, 2)
    /\ last.pushed.weight = Zero

FactorIndices(ps) == [j \in DOMAIN ps |-> ps[j].factorIndex]

\* C18: a factor call sets the factorIndex of its particle to 0 if it was
\* undefined and to one more if not; the particle that control launches is a
\* new one, with factorIndex undefined, or has the factorIndex of the buffer
\* record it was copied from; control changes the factorIndex of no
\* buffered record, sample and exit change none at all.  So the factorIndex of
\* a record is always the number of factor statements its trajectory passed,
\* less one.
C18_FactorIndex ==
    /\ [][last'.op = "factor" =>
             /\ last'.fi = IF activeParticle.factorIndex = Undefined THEN 0
                           ELSE activeParticle.factorIndex + 1
             /\ last'.pushed # NoParticle => last'.pushed.factorIndex = last'.fi]_vars
    /\ [][(pc' = "running" /\ last'.op \in {"aSMC", "factor", "exit", "continue"}) =>
             \E i \in 0..Len(Launchable) :
                 IF i = Len(Launchable)
                 THEN /\ activeParticle'.factorIndex = Undefined
                      /\ activeParticle'.continuation = exitK
                      /\ FactorIndices(buffer') = FactorIndices(Launchable)
                 ELSE /\ activeParticle'.factorIndex = Launchable[i + 1].factorIndex
                      /\ activeParticle'.continuation = Launchable[i + 1].continuation
                      /\ FactorIndices(buffer') = FactorIndices(Launchable)]_vars
    /\ [][last'.op = "sample" =>
             /\ activeParticle'.factorIndex = activeParticle.factorIndex
             /\ FactorIndices(buffer') = FactorIndices(buffer)
             /\ FactorIndices(exitedParticles') = FactorIndices(exitedParticles)]_vars
    /\ [][last'.op = "exit" =>
             FactorIndices(exitedParticles') =
                 Append(FactorIndices(exitedParticles), activeParticle.factorIndex)]_vars
    /\ [](\A r \in Records(buffer) \cup Records(exitedParticles) \cup {activeParticle} :
             r.factorIndex = IF r.continuation.at = 0 THEN Undefined
                             ELSE r.continuation.at - 1)

\* C18 witness: a copy of a buffered record with factorIndex 0 was launched
\* and its factor call has brought its factorIndex from 0 to 1, the record it
\* was copied from waiting in the buffer with factorIndex 0.
C18_Witness ==
    /\ last.op = "factor"
    /\ last.fi = 1
    /\ \E b \in Records(buffer) : b.factorIndex = 0 /\ b.numChildrenToSpawn = 1

\* the records the object holds: buffered, completed and, while a particle
\* is resumed, the active one
Held ==
    buffer \o exitedParticles
        \o (IF pc \in {"running", "escaped"} THEN <<activeParticle>> ELSE <<>>)

\* C19: no two records held own the same store map, none owns the store map
\* of the caller (this.store) or the copy saved at entry (this.oldStore), and
\* these two differ; the store map of a launched particle has the content of
\* the caller's map or of the map of a buffered record; a value that the
\* running particle writes to its store slot changes the content of no other
\* record's map, nor of the caller's, nor of the saved one.
C19_OwnStores ==
    /\ [](pc # "idle" =>
            /\ Apart(Held)
            /\ \A r \in Records(Held) : r.store \notin {store, oldStore}
            /\ store # oldStore
            /\ activeParticle.store \notin {store, oldStore})
    /\ [][(pc' = "running" /\ last'.op \in {"aSMC", "factor", "exit", "continue"}) =>
             heap'[activeParticle'.store] \in
                 {heap'[store']} \cup {heap[b.store] : b \in Records(buffer)}
                     \cup (IF last'.pushed # NoParticle
                           THEN {heap[activeParticle.store]} ELSE {})]_vars
    /\ [][last'.op = "sample" =>
             /\ \A r \in Records(buffer \o exitedParticles) :
                    heap'[r.store] = heap[r.store]
             /\ heap'[store] = heap[store]
             /\ heap'[oldStore] = heap[oldStore]
             /\ activeParticle'.store = activeParticle.store]_vars

\* C19 witness: the running particle has written a value to its store slot
\* that a buffered record at the same point of the program does not have,
\* nor the caller's store.
C19_Witness ==
    /\ pc = "running"
    /\ last.op = "sample"
    /\ heap[activeParticle.store] # heap[store]
    /\ \E b \in Records(buffer) :
           /\ b.factorIndex = activeParticle.factorIndex
           /\ b.factorIndex # Undefined
           /\ heap[b.store] # heap[activeParticle.store]

\* C20: a factor call whose particle has a finite weight after the score adds
\* one entry at the end of the ledger of the particle's new factorIndex,
\* whether it then pushes the particle or drops it, and changes no other
\* entry of that ledger and no other ledger; every other step, and a factor
\* call whose particle arrives with weight -Infinity, leaves all ledgers as
\* they are.
C20_LedgerAppendOnly ==
    [][IF last'.op = "factor" /\ LAdd(activeParticle.weight, last'.score) # NegInf
       THEN LET n == last'.fi
            IN  /\ DOMAIN obsWeights' = DOMAIN obsWeights \cup {n}
                /\ \A m \in DOMAIN obsWeights \ {n} : obsWeights'[m] = obsWeights[m]
                /\ Len(obsWeights'[n]) = LedgerLen(n) + 1
                /\ \A j \in 1..LedgerLen(n) : obsWeights'[n][j] = obsWeights[n][j]
       ELSE obsWeights' = obsWeights]_vars

\* C20 witness: a factor call has dropped its particle with zero children and
\* its entry is in the ledger, after the entries of the earlier arrivals.
C20_Witness ==
    /\ last.op = "factor"
    /\ last.c = 0
    /\ Len(obsWeights[last.fi]) >= 2
    /\ obsWeights[last.fi][Len(obsWeights[last.fi])].mnk = 0

====
